---------------------------- MODULE Spec2Model ----------------------------
(***************************************************************************)
(* Model of the dropbox clean-up pipeline of src/main.go:                  *)
(*   GetDropboxFiles, GetActiveFiles            (the two collectors)       *)
(*   CondorSchedd.getDropboxFilesFromJob        (active-file extractor)    *)
(*   scanDropboxLineToFileEntry, parsePermsToDirectoryFlag,                *)
(*   parseDateStampToTime                       (line parser)              *)
(*   fileIsRecent                               (recency test)             *)
(*                                                                         *)
(* Go values are represented as follows.                                   *)
(*   string / []byte : a sequence of one-character strings                 *)
(*   error           : a string, NoErr for the nil error                   *)
(*   slice           : [isNil, items]; a nil slice and an empty non-nil    *)
(*                     slice are different values, as they are for         *)
(*                     reflect.DeepEqual                                    *)
(*   time.Time       : the wall clock reading [year, month, day, hour,     *)
(*                     min, sec] in the one local zone                     *)
(***************************************************************************)
EXTENDS Integers, Sequences, FiniteSets, TLC

VARIABLES
    pc,            \* control point of the running operation
    fileListings,  \* GetDropboxFiles: the blobs getFilesList returned
    fileEntries,   \* GetDropboxFiles: the entries collected so far
    jobs,          \* GetActiveFiles: the jobs queryJobsList returned
    activeFiles,   \* GetActiveFiles: the identifiers collected so far
    i,             \* position of the range loop (1-based)
    calls,         \* the provider's per-item calls so far, with their results
    ret,           \* what the operation returned: [coll, err]
    now,           \* package variable now (time.Now() at load)
    input,         \* argument of the parser / extractor under call
    out            \* result of the parser / extractor under call

vars == <<pc, fileListings, fileEntries, jobs, activeFiles, i, calls, ret,
          now, input, out>>

-----------------------------------------------------------------------------
(* Go values *)

NoErr == "nil"

NilSlice == [isNil |-> TRUE, items |-> <<>>]

\* make([]T, 0, n): empty and not nil
MakeSlice == [isNil |-> FALSE, items |-> <<>>]

\* append(s, xs...): appending nothing to a nil slice leaves it nil
AppendSlice(s, xs) ==
    [isNil |-> s.isNil /\ xs = <<>>, items |-> s.items \o xs]

NoRet == [coll |-> NilSlice, err |-> "unset"]

\* FileEntry{}: the zero value
ZeroTime == [year |-> 1, month |-> 1, day |-> 1, hour |-> 0, min |-> 0, sec |-> 0]

ZeroFileEntry == [filename |-> <<>>, created |-> ZeroTime, isDirectory |-> FALSE]

-----------------------------------------------------------------------------
(* Bounds *)

MaxListing == 3      \* blobs in one listing
MaxJobs == 3         \* jobs in one query result

-----------------------------------------------------------------------------
(* The providers (FileAccessor, JobLister) are interfaces: what their      *)
(* methods return is an input of the collectors.                           *)

RECURSIVE SeqsUpTo(_, _)
SeqsUpTo(S, n) ==
    IF n = 0 THEN {<<>>}
    ELSE LET shorter == SeqsUpTo(S, n - 1)
         IN  shorter \cup {Append(s, x) : s \in {t \in shorter : Len(t) = n - 1}, x \in S}

Blobs == {<<"x">>, <<"y">>}

TransportErrs == {"some generic file listing error", "connection refused"}

ConvertErrs == {"Fake error that we staged"}

EntryA == [filename |-> <<"f">>,
           created |-> [year |-> 2023, month |-> 4, day |-> 5, hour |-> 6, min |-> 54, sec |-> 32],
           isDirectory |-> FALSE]

EntryB == [filename |-> <<"d">>,
           created |-> [year |-> 2023, month |-> 1, day |-> 2, hour |-> 3, min |-> 45, sec |-> 6],
           isDirectory |-> TRUE]

\* what getFilesList(source) may return: ([][]byte, error)
GetFilesListResults ==
    {[listing |-> NilSlice, err |-> e] : e \in TransportErrs}
    \cup {[listing |-> [isNil |-> FALSE, items |-> l], err |-> NoErr] :
              l \in SeqsUpTo(Blobs, MaxListing)}
    \cup {[listing |-> NilSlice, err |-> NoErr]}

\* what fileListingToFileEntry(line) may return: (FileEntry, error)
FileListingToFileEntryResults ==
    {[entry |-> ZeroFileEntry, err |-> e] : e \in ConvertErrs}
    \cup {[entry |-> e, err |-> NoErr] : e \in {EntryA, EntryB}}

-----------------------------------------------------------------------------
(* GetDropboxFiles *)

\* Mutant: the transport error is replaced by a generic one.
ListingFailed_Generic(err) == [coll |-> NilSlice, err |-> "listing failed"]

\* if err != nil { return nil, err }
ListingFailed(err) == [coll |-> NilSlice, err |-> err]

\* Mutant: the entry returned beside an error is appended too.
CollectEntry_Fabricate(entries, res) == AppendSlice(entries, <<res.entry>>)

\* the body of the range loop: a failed blob is skipped, a converted one appended
CollectEntry(entries, res) ==
    IF res.err # NoErr THEN entries ELSE AppendSlice(entries, <<res.entry>>)

ErrNoFileEntries == "there was an error processing the file listings into file entries.  No file entries were generated"

\* Mutant: the all-failed check is missing.
DropboxReturn_NoCheck(listings, entries) == [coll |-> entries, err |-> NoErr]

\* the check after the loop and the final return
DropboxReturn(listings, entries) ==
    IF Len(listings.items) # 0 /\ Len(entries.items) = 0
    THEN [coll |-> NilSlice, err |-> ErrNoFileEntries]
    ELSE [coll |-> entries, err |-> NoErr]

GetDropboxFiles_getFilesList ==
    /\ pc = "idle"
    /\ \E r \in GetFilesListResults :
          /\ calls' = <<[fn |-> "getFilesList", res |-> r]>>
          /\ IF r.err # NoErr
             THEN /\ ret' = ListingFailed(r.err)
                  /\ pc' = "done"
                  /\ UNCHANGED <<fileListings, fileEntries, i>>
             ELSE /\ fileListings' = r.listing
                  /\ fileEntries' = MakeSlice
                  /\ i' = 1
                  /\ pc' = "GetDropboxFiles.range"
                  /\ UNCHANGED ret
    /\ UNCHANGED <<jobs, activeFiles, now, input, out>>

GetDropboxFiles_range ==
    /\ pc = "GetDropboxFiles.range"
    /\ i <= Len(fileListings.items)
    /\ \E r \in FileListingToFileEntryResults :
          /\ calls' = Append(calls, [fn |-> "fileListingToFileEntry",
                                     arg |-> fileListings.items[i], res |-> r])
          /\ fileEntries' = CollectEntry(fileEntries, r)
    /\ i' = i + 1
    /\ UNCHANGED <<pc, fileListings, jobs, activeFiles, ret, now, input, out>>

GetDropboxFiles_return ==
    /\ pc = "GetDropboxFiles.range"
    /\ i > Len(fileListings.items)
    /\ ret' = DropboxReturn(fileListings, fileEntries)
    /\ pc' = "done"
    /\ UNCHANGED <<fileListings, fileEntries, jobs, activeFiles, i, calls, now, input, out>>

-----------------------------------------------------------------------------
(* GetActiveFiles *)

AttrFiles == "PNFS_INPUT_FILES"

AttrOther == "FILE_ATTRIBUTE"

FileA == <<"/", "a">>

FileB == <<"/", "b">>

\* a job as queryJobsList returns it: map[string][]byte
JobRecords == {(AttrFiles :> FileA), (AttrOther :> FileB)}

QueryErrs == {"this is an error", "schedd unreachable"}

ExtractErrs == {"error!"}

\* what queryJobsList(attributes, constraints) may return: ([]map[string][]byte, error)
QueryJobsListResults ==
    {[jobs |-> NilSlice, err |-> e] : e \in QueryErrs}
    \cup {[jobs |-> [isNil |-> FALSE, items |-> l], err |-> NoErr] :
              l \in SeqsUpTo(JobRecords, MaxJobs)}
    \cup {[jobs |-> NilSlice, err |-> NoErr]}

\* what getDropboxFilesFromJob(job) may return: ([]string, error)
GetDropboxFilesFromJobResults ==
    {[files |-> NilSlice, err |-> e] : e \in ExtractErrs}
    \cup {[files |-> [isNil |-> FALSE, items |-> l], err |-> NoErr] :
              l \in {<<>>, <<FileA>>, <<FileA, FileB>>}}

\* bytes.NewReader(v): a reader that yields v and never fails
NewReader(v) == [data |-> v, readErr |-> NoErr]

\* readerJob: every attribute of the job wrapped in a reader
ReaderJob(job) == [k \in DOMAIN job |-> NewReader(job[k])]

\* Mutant: the query error is swallowed.
QueryFailed_Swallow(files, err) == [coll |-> files, err |-> NoErr]

\* if err != nil { return activeFiles, err }
QueryFailed(files, err) == [coll |-> files, err |-> err]

\* Mutant: identifiers already collected are not appended again.
CollectFiles_Dedup(files, res) ==
    IF res.err # NoErr THEN files
    ELSE AppendSlice(files, SelectSeq(res.files.items,
                                      LAMBDA f : \A k \in 1..Len(files.items) : files.items[k] # f))

\* the body of the range loop: a failed job is skipped, the files of the others appended
CollectFiles(files, res) ==
    IF res.err # NoErr THEN files ELSE AppendSlice(files, res.files.items)

\* return activeFiles, nil
ActiveReturn(files) == [coll |-> files, err |-> NoErr]

GetActiveFiles_queryJobsList ==
    /\ pc = "idle"
    /\ \E r \in QueryJobsListResults :
          /\ calls' = <<[fn |-> "queryJobsList", res |-> r]>>
          /\ activeFiles' = MakeSlice
          /\ IF r.err # NoErr
             THEN /\ ret' = QueryFailed(activeFiles', r.err)
                  /\ pc' = "done"
                  /\ UNCHANGED <<jobs, i>>
             ELSE /\ jobs' = r.jobs
                  /\ i' = 1
                  /\ pc' = "GetActiveFiles.range"
                  /\ UNCHANGED ret
    /\ UNCHANGED <<fileListings, fileEntries, now, input, out>>

GetActiveFiles_range ==
    /\ pc = "GetActiveFiles.range"
    /\ i <= Len(jobs.items)
    /\ \E r \in GetDropboxFilesFromJobResults :
          /\ calls' = Append(calls, [fn |-> "getDropboxFilesFromJob",
                                     arg |-> ReaderJob(jobs.items[i]), res |-> r])
          /\ activeFiles' = CollectFiles(activeFiles, r)
    /\ i' = i + 1
    /\ UNCHANGED <<pc, fileListings, fileEntries, jobs, ret, now, input, out>>

GetActiveFiles_return ==
    /\ pc = "GetActiveFiles.range"
    /\ i > Len(jobs.items)
    /\ ret' = ActiveReturn(activeFiles)
    /\ pc' = "done"
    /\ UNCHANGED <<fileListings, fileEntries, jobs, activeFiles, i, calls, now, input, out>>

-----------------------------------------------------------------------------

Init ==
    /\ pc = "idle"
    /\ fileListings = NilSlice
    /\ fileEntries = NilSlice
    /\ jobs = NilSlice
    /\ activeFiles = NilSlice
    /\ i = 0
    /\ calls = <<>>
    /\ ret = NoRet
    /\ now = ZeroTime
    /\ input = <<>>
    /\ out = <<>>

Next ==
    \/ GetDropboxFiles_getFilesList
    \/ GetDropboxFiles_range
    \/ GetDropboxFiles_return
    \/ GetActiveFiles_queryJobsList
    \/ GetActiveFiles_range
    \/ GetActiveFiles_return

Spec == Init /\ [][Next]_vars

-----------------------------------------------------------------------------
(* CondorSchedd.getDropboxFilesFromJob *)

MaxValueLen == 4     \* characters in an attribute value

ValueChars == {"a", "b", ",", " ", "\t"}

\* unicode.IsSpace, restricted to the characters of the model
WhiteSpace == {" ", "\t", "\n"}

ErrMissingJobDropboxFiles == "required job attribute is missing to get job dropbox files"

ReadErrs == {"unexpected EOF"}

\* an io.Reader: the bytes it yields and the error (if any) its Read ends with
Readers(values) ==
    {[data |-> v, readErr |-> NoErr] : v \in values}
    \cup {[data |-> v, readErr |-> e] : v \in values, e \in ReadErrs}

\* the jobs handed to getDropboxFilesFromJob: map[string]io.Reader
CondorJobs ==
    {(AttrFiles :> r) : r \in Readers(SeqsUpTo(ValueChars, MaxValueLen))}
    \cup {(AttrOther :> r) : r \in Readers({FileA, <<"a", ",", "b">>})}
    \cup {(AttrFiles :> r) @@ (AttrOther :> NewReader(FileB)) :
              r \in Readers({<<"a", ",", " ", "b">>})}
    \cup {<<>>}

\* io.Copy(b, val) followed by b.String()
Copy(reader) == [text |-> reader.data, err |-> reader.readErr]

\* strings.Index for a one-character separator; 0 when absent
IndexOf(s, sep) ==
    IF \E k \in 1..Len(s) : s[k] = sep
    THEN CHOOSE k \in 1..Len(s) : s[k] = sep /\ \A m \in 1..(k - 1) : s[m] # sep
    ELSE 0

\* Mutant: empty segments are dropped.
RECURSIVE Split_SkipEmpty(_, _)
Split_SkipEmpty(s, sep) ==
    LET k == IndexOf(s, sep)
        seg == IF k = 0 THEN s ELSE SubSeq(s, 1, k - 1)
        rest == IF k = 0 THEN <<>> ELSE Split_SkipEmpty(SubSeq(s, k + 1, Len(s)), sep)
    IN  IF seg = <<>> THEN rest ELSE <<seg>> \o rest

\* strings.Split(s, sep)
RECURSIVE Split(_, _)
Split(s, sep) ==
    LET k == IndexOf(s, sep)
    IN  IF k = 0 THEN <<s>>
        ELSE <<SubSeq(s, 1, k - 1)>> \o Split(SubSeq(s, k + 1, Len(s)), sep)

RECURSIVE TrimLeft(_)
TrimLeft(s) ==
    IF s # <<>> /\ Head(s) \in WhiteSpace THEN TrimLeft(Tail(s)) ELSE s

RECURSIVE TrimRight(_)
TrimRight(s) ==
    IF s # <<>> /\ s[Len(s)] \in WhiteSpace
    THEN TrimRight(SubSeq(s, 1, Len(s) - 1)) ELSE s

\* strings.TrimSpace(s)
TrimSpace(s) == TrimRight(TrimLeft(s))

\* (c *CondorSchedd) getDropboxFilesFromJob(j)
getDropboxFilesFromJob(j) ==
    IF AttrFiles \notin DOMAIN j
    THEN [files |-> NilSlice, err |-> ErrMissingJobDropboxFiles]
    ELSE LET b == Copy(j[AttrFiles])
         IN  IF b.err # NoErr
             THEN [files |-> NilSlice, err |-> b.err]
             ELSE LET rawSlice == Split(b.text, ",")
                  IN  [files |-> [isNil |-> FALSE,
                                  items |-> [k \in 1..Len(rawSlice) |->
                                                 TrimSpace(rawSlice[k])]],
                       err |-> NoErr]

CondorSchedd_getDropboxFilesFromJob ==
    /\ pc = "CondorSchedd.getDropboxFilesFromJob"
    /\ out' = getDropboxFilesFromJob(input)
    /\ pc' = "done"
    /\ UNCHANGED <<fileListings, fileEntries, jobs, activeFiles, i, calls, ret, now, input>>

InitCondor ==
    /\ pc = "CondorSchedd.getDropboxFilesFromJob"
    /\ input \in CondorJobs
    /\ out = <<>>
    /\ fileListings = NilSlice
    /\ fileEntries = NilSlice
    /\ jobs = NilSlice
    /\ activeFiles = NilSlice
    /\ i = 0
    /\ calls = <<>>
    /\ ret = NoRet
    /\ now = ZeroTime

NextCondor == CondorSchedd_getDropboxFilesFromJob

SpecCondor == InitCondor /\ [][NextCondor]_vars

-----------------------------------------------------------------------------
(* Characters *)

DigitSeq == <<"0", "1", "2", "3", "4", "5", "6", "7", "8", "9">>

LowerAlpha == <<"a", "b", "c", "d", "e", "f", "g", "h", "i", "j", "k", "l", "m",
                "n", "o", "p", "q", "r", "s", "t", "u", "v", "w", "x", "y", "z">>

UpperAlpha == <<"A", "B", "C", "D", "E", "F", "G", "H", "I", "J", "K", "L", "M",
                "N", "O", "P", "Q", "R", "S", "T", "U", "V", "W", "X", "Y", "Z">>

Range(f) == {f[k] : k \in DOMAIN f}

\* \d
Digit == Range(DigitSeq)

\* \w
WordChar == Digit \cup Range(LowerAlpha) \cup Range(UpperAlpha) \cup {"_"}

\* (?:\w|-)
PermChar == WordChar \cup {"-"}

\* \s
SpaceChar == {" ", "\t", "\n", "\f", "\r"}

isDigit(s, k) == k <= Len(s) /\ s[k] \in Digit

DigitVal(c) == (CHOOSE k \in 1..10 : DigitSeq[k] = c) - 1

\* the lower-case form of an ASCII letter, any other character unchanged
ToLower(c) ==
    IF \E k \in 1..26 : UpperAlpha[k] = c
    THEN LowerAlpha[CHOOSE k \in 1..26 : UpperAlpha[k] = c]
    ELSE c

-----------------------------------------------------------------------------
(* package time, as far as parseDateStampToTime uses it.  A time.Time is   *)
(* its wall clock reading in the local zone; zone transitions are not      *)
(* modelled.                                                               *)

isLeap(year) == year % 4 = 0 /\ (year % 100 # 0 \/ year % 400 = 0)

daysIn(month, year) ==
    IF month = 2 THEN (IF isLeap(year) THEN 29 ELSE 28)
    ELSE IF month \in {4, 6, 9, 11} THEN 30 ELSE 31

\* time.Date: a day past the end of its month rolls over into the next months
RECURSIVE Date(_, _, _, _, _, _)
Date(year, month, day, hour, min, sec) ==
    IF month > 12 THEN Date(year + 1, month - 12, day, hour, min, sec)
    ELSE IF day > daysIn(month, year)
         THEN Date(year, month + 1, day - daysIn(month, year), hour, min, sec)
         ELSE [year |-> year, month |-> month, day |-> day,
               hour |-> hour, min |-> min, sec |-> sec]

\* t.AddDate(years, months, days)
AddDate(t, years, months, days) ==
    Date(t.year + years, t.month + months, t.day + days, t.hour, t.min, t.sec)

\* the seconds of the day and the ordering of wall clock readings
ClockKey(t) == <<t.year, t.month, t.day, (t.hour * 60 + t.min) * 60 + t.sec>>

\* t.After(u)
After(t, u) ==
    LET a == ClockKey(t)
        b == ClockKey(u)
    IN  \E k \in 1..4 : a[k] > b[k] /\ \A m \in 1..(k - 1) : a[m] = b[m]

shortMonthNames == <<
    <<"J", "a", "n">>, <<"F", "e", "b">>, <<"M", "a", "r">>, <<"A", "p", "r">>,
    <<"M", "a", "y">>, <<"J", "u", "n">>, <<"J", "u", "l">>, <<"A", "u", "g">>,
    <<"S", "e", "p">>, <<"O", "c", "t">>, <<"N", "o", "v">>, <<"D", "e", "c">> >>

\* the layouts, cut into (literal prefix, standard chunk) pairs as
\* nextStdChunk cuts them
dateWithTimeNoYearLayout == <<
    [prefix |-> <<>>, std |-> "stdMonth"],
    [prefix |-> <<" ", " ">>, std |-> "stdDay"],
    [prefix |-> <<" ">>, std |-> "stdHour"],
    [prefix |-> <<":">>, std |-> "stdZeroMinute"] >>

dateWithYearLayout == <<
    [prefix |-> <<>>, std |-> "stdMonth"],
    [prefix |-> <<" ">>, std |-> "stdDay"],
    [prefix |-> <<" ">>, std |-> "stdLongYear"] >>

ErrBadValue == "parsing time: cannot parse value"

ErrExtraText == "parsing time: extra text"

ErrDayRange == "parsing time: day out of range"

ErrHourRange == "parsing time: hour out of range"

ErrMinuteRange == "parsing time: minute out of range"

\* the values of *time.ParseError
TimeParseErrors == {ErrBadValue, ErrExtraText, ErrDayRange, ErrHourRange, ErrMinuteRange}

RECURSIVE cutspace(_)
cutspace(s) == IF s # <<>> /\ Head(s) = " " THEN cutspace(Tail(s)) ELSE s

\* time.skip: a space of the layout stands for any run of spaces of the value
RECURSIVE skip(_, _)
skip(value, prefix) ==
    IF prefix = <<>> THEN [value |-> value, ok |-> TRUE]
    ELSE IF Head(prefix) = " "
         THEN IF value # <<>> /\ Head(value) # " "
              THEN [value |-> value, ok |-> FALSE]
              ELSE skip(cutspace(value), cutspace(prefix))
         ELSE IF value = <<>> \/ Head(value) # Head(prefix)
              THEN [value |-> value, ok |-> FALSE]
              ELSE skip(Tail(value), Tail(prefix))

\* time.getnum: one or two digits, exactly two when fixed
getnum(s, fixed) ==
    IF ~isDigit(s, 1) THEN [n |-> 0, value |-> s, ok |-> FALSE]
    ELSE IF ~isDigit(s, 2)
         THEN IF fixed THEN [n |-> 0, value |-> s, ok |-> FALSE]
              ELSE [n |-> DigitVal(s[1]), value |-> Tail(s), ok |-> TRUE]
         ELSE [n |-> DigitVal(s[1]) * 10 + DigitVal(s[2]),
               value |-> SubSeq(s, 3, Len(s)), ok |-> TRUE]

\* time.lookup(shortMonthNames, value): the first name the value starts with,
\* letter case ignored
lookup(tab, val) ==
    LET hit(k) == /\ Len(val) >= Len(tab[k])
                  /\ \A c \in 1..Len(tab[k]) : ToLower(val[c]) = ToLower(tab[k][c])
    IN  IF \E k \in 1..Len(tab) : hit(k)
        THEN LET k == CHOOSE k \in 1..Len(tab) : hit(k) /\ \A m \in 1..(k - 1) : ~hit(m)
             IN  [n |-> k - 1, value |-> SubSeq(val, Len(tab[k]) + 1, Len(val)), ok |-> TRUE]
        ELSE [n |-> -1, value |-> val, ok |-> FALSE]

ParseFailed(e) == [t |-> ZeroTime, err |-> e]

\* the end of time.parse: defaults, the day's validation, the result
parseFinish(st) ==
    LET month == IF st.month < 0 THEN 1 ELSE st.month
        day == IF st.day < 0 THEN 1 ELSE st.day
    IN  IF day < 1 \/ day > daysIn(month, st.year)
        THEN ParseFailed(ErrDayRange)
        ELSE [t |-> Date(st.year, month, day, st.hour, st.min, 0), err |-> NoErr]

\* the loop of time.parse over the chunks of the layout
RECURSIVE parseChunks(_, _, _)
parseChunks(layout, value0, st) ==
    IF layout = <<>>
    THEN IF value0 # <<>> THEN ParseFailed(ErrExtraText) ELSE parseFinish(st)
    ELSE LET std == Head(layout).std
             sk == skip(value0, Head(layout).prefix)
             value == sk.value
         IN  IF ~sk.ok THEN ParseFailed(ErrBadValue)
             ELSE IF std = "stdMonth"
             THEN LET r == lookup(shortMonthNames, value)
                  IN  IF ~r.ok THEN ParseFailed(ErrBadValue)
                      ELSE parseChunks(Tail(layout), r.value, [st EXCEPT !.month = r.n + 1])
             ELSE IF std = "stdDay"
             THEN LET r == getnum(value, FALSE)
                  IN  IF ~r.ok THEN ParseFailed(ErrBadValue)
                      ELSE parseChunks(Tail(layout), r.value, [st EXCEPT !.day = r.n])
             ELSE IF std = "stdHour"
             THEN LET r == getnum(value, FALSE)
                  IN  IF ~r.ok THEN ParseFailed(ErrBadValue)
                      ELSE IF r.n < 0 \/ 24 <= r.n THEN ParseFailed(ErrHourRange)
                      ELSE parseChunks(Tail(layout), r.value, [st EXCEPT !.hour = r.n])
             ELSE IF std = "stdZeroMinute"
             THEN LET r == getnum(value, TRUE)
                  IN  IF ~r.ok THEN ParseFailed(ErrBadValue)
                      ELSE IF r.n < 0 \/ 60 <= r.n THEN ParseFailed(ErrMinuteRange)
                      ELSE parseChunks(Tail(layout), r.value, [st EXCEPT !.min = r.n])
             ELSE \* stdLongYear: exactly four digits
                  IF Len(value) < 4 \/ \E k \in 1..4 : ~isDigit(value, k)
                  THEN ParseFailed(ErrBadValue)
                  ELSE parseChunks(Tail(layout), SubSeq(value, 5, Len(value)),
                                   [st EXCEPT !.year =
                                        DigitVal(value[1]) * 1000 + DigitVal(value[2]) * 100
                                        + DigitVal(value[3]) * 10 + DigitVal(value[4])])

\* time.ParseInLocation(layout, value, time.Local)
ParseInLocation(layout, value) ==
    parseChunks(layout, value, [year |-> 0, month |-> -1, day |-> -1, hour |-> 0, min |-> 0])

-----------------------------------------------------------------------------
(* parseDateStampToTime *)

\* Mutant: the year is taken back for a stamp that carries its year, too.
parseDateStampToTime_RollbackBoth(dateString, clock) ==
    LET first == ParseInLocation(dateWithTimeNoYearLayout, dateString)
        second == ParseInLocation(dateWithYearLayout, dateString)
        parsed == IF first.err = NoErr THEN AddDate(first.t, clock.year, 0, 0) ELSE second.t
    IN  IF first.err # NoErr /\ second.err # NoErr
        THEN [t |-> ZeroTime, err |-> second.err]
        ELSE IF After(parsed, clock)
             THEN [t |-> AddDate(parsed, -1, 0, 0), err |-> NoErr]
             ELSE [t |-> parsed, err |-> NoErr]

\* parseDateStampToTime(dateString), reading the package variable now
parseDateStampToTime(dateString, clock) ==
    LET first == ParseInLocation(dateWithTimeNoYearLayout, dateString)
    IN  IF first.err = NoErr
        THEN LET yearDateStamp == AddDate(first.t, clock.year, 0, 0)
             IN  IF After(yearDateStamp, clock)
                 THEN [t |-> AddDate(yearDateStamp, -1, 0, 0), err |-> NoErr]
                 ELSE [t |-> yearDateStamp, err |-> NoErr]
        ELSE LET second == ParseInLocation(dateWithYearLayout, dateString)
             IN  IF second.err # NoErr
                 THEN [t |-> ZeroTime, err |-> second.err]
                 ELSE [t |-> second.t, err |-> NoErr]

-----------------------------------------------------------------------------
(* The date stamps of a listing, as the listing tool prints them *)

YearSpan == 1        \* the clock is read in one of the years 2024..2024+YearSpan

Dig(n) == DigitSeq[n + 1]

TwoDigits(n) == <<Dig(n \div 10), Dig(n % 10)>>

FourDigits(n) == TwoDigits(n \div 100) \o TwoDigits(n % 100)

\* the day of the month, padded with a space to two columns or not padded
DayChars(day, pad) ==
    IF day >= 10 THEN TwoDigits(day)
    ELSE IF pad THEN <<" ", Dig(day)>> ELSE <<Dig(day)>>

StampDays == {1, 26, 28, 29, 30, 31}

StampClocks == {<<0, 0>>, <<14, 55>>, <<23, 59>>}

StampYears == {2022, 2024}

\* "Sep 26 14:55"
NoYearStamps ==
    {[kind |-> "noyear", mon |-> m, day |-> d, hour |-> c[1], min |-> c[2], year |-> 0, pad |-> p] :
        m \in 1..12, d \in StampDays, c \in StampClocks, p \in BOOLEAN}

\* "Apr  6  2022"
YearStamps ==
    {[kind |-> "year", mon |-> m, day |-> d, hour |-> 0, min |-> 0, year |-> y, pad |-> p] :
        m \in 1..12, d \in StampDays, y \in StampYears, p \in BOOLEAN}

RenderStamp(f) ==
    shortMonthNames[f.mon] \o <<" ">> \o DayChars(f.day, f.pad)
    \o (IF f.kind = "noyear"
        THEN <<" ">> \o TwoDigits(f.hour) \o <<":">> \o TwoDigits(f.min)
        ELSE (IF f.pad THEN <<" ", " ">> ELSE <<" ">>) \o FourDigits(f.year))

\* strings that are no date stamp
MalformedStamps == {
    <<"b", "o", "o", "g", "i", "t", "y", "b", "o", "o">>,
    <<"A", "p", "r", " ", " ", "9", "6", " ", " ", "2", "0", "2", "2">>,
    <<"S", "e", "p", " ", "2", "6", " ", "2", "4", ":", "5", "5">>,
    <<"S", "e", "p", " ", "2", "6", " ", "1", "4", ":", "6", "0">>,
    <<"S", "e", "p", " ", "2", "6", " ", "1", "4", ":", "5">>,
    <<"S", "e", "p", "\t", "2", "6", " ", "1", "4", ":", "5", "5">>,
    <<"S", "e", "p", " ", "2", "6", " ", "2", "0", "2", "2", "2">>,
    <<"S", "e", "p", " ", "2", "6", " ", "2", "0", "2">>,
    <<"S", "e", "p", "t", " ", "2", "6", " ", "1", "4", ":", "5", "5">>,
    <<>> }

\* a date string together with the fields it was printed from
DateInputs ==
    {[dateString |-> RenderStamp(f), src |-> f] : f \in NoYearStamps \cup YearStamps}
    \cup {[dateString |-> d,
           src |-> [kind |-> "malformed", mon |-> 0, day |-> 0, hour |-> 0, min |-> 0,
                    year |-> 0, pad |-> FALSE]] : d \in MalformedStamps}

\* readings of time.Now() at load
Nows ==
    {[year |-> y, month |-> c[1], day |-> c[2], hour |-> c[3], min |-> c[4], sec |-> c[5]] :
        y \in 2024..(2024 + YearSpan),
        c \in {<<1, 1, 0, 0, 30>>, <<1, 15, 12, 0, 0>>, <<2, 28, 12, 0, 0>>,
               <<9, 26, 14, 55, 0>>, <<9, 26, 14, 55, 30>>, <<12, 31, 23, 59, 59>>}}

parseDateStampToTime_call ==
    /\ pc = "parseDateStampToTime"
    /\ out' = parseDateStampToTime(input.dateString, now)
    /\ pc' = "done"
    /\ UNCHANGED <<fileListings, fileEntries, jobs, activeFiles, i, calls, ret, now, input>>

InitDate ==
    /\ pc = "parseDateStampToTime"
    /\ now \in Nows
    /\ input \in DateInputs
    /\ out = <<>>
    /\ fileListings = NilSlice
    /\ fileEntries = NilSlice
    /\ jobs = NilSlice
    /\ activeFiles = NilSlice
    /\ i = 0
    /\ calls = <<>>
    /\ ret = NoRet

NextDate == parseDateStampToTime_call

SpecDate == InitDate /\ [][NextDate]_vars

-----------------------------------------------------------------------------
(* lineRegex and scanDropboxLineToFileEntry *)

\* the end of the longest run of characters of class starting at p
RECURSIVE Span(_, _, _)
Span(s, p, class) ==
    IF p > Len(s) \/ s[p] \notin class THEN p ELSE Span(s, p + 1, class)

\* the end of the longest run of characters "." matches (all but the line feed)
RECURSIVE DotSpan(_, _)
DotSpan(s, p) ==
    IF p > Len(s) \/ s[p] = "\n" THEN p ELSE DotSpan(s, p + 1)

\* ((?:\w|-)+)\s+(\d+)\s+(\d+)\s+(\d+)\s+(\d+)\s+(\w+\s+\d+\s+ : the pieces of
\* lineRegex before the alternation, each a class repeated once or more
lineRegexHead == <<PermChar, SpaceChar, Digit, SpaceChar, Digit, SpaceChar, Digit,
                   SpaceChar, Digit, SpaceChar, WordChar, SpaceChar, Digit, SpaceChar>>

\* where each piece starts when the pieces are matched in turn from p, each as
\* long as it can be, and where the last one ends; 0 where a piece is empty.
\* No piece can end earlier than that: the character after it is of its own
\* class, and the next piece's class is disjoint from it.
RECURSIVE Runs(_, _, _)
Runs(s, p, classes) ==
    IF classes = <<>> THEN <<p>>
    ELSE LET q == Span(s, p, Head(classes))
         IN  IF q = p THEN <<0>> ELSE <<p>> \o Runs(s, q, Tail(classes))

NoMatch == [matched |-> FALSE, parts |-> [k \in 0..7 |-> <<>>]]

\* a match of lineRegex that starts at p
MatchAt(s, p) ==
    LET b == Runs(s, p, lineRegexHead)
    IN  IF \E k \in 1..Len(b) : b[k] = 0 THEN NoMatch
        ELSE
        LET t == b[15]
            d1 == Span(s, t, Digit)
            d2 == Span(s, d1 + 1, Digit)
            \* (?:(?:\d+:\d+)|\d+) : the first alternative where it matches
            stampEnd == IF d1 <= Len(s) /\ s[d1] = ":" /\ d2 > d1 + 1 THEN d2 ELSE d1
            w == Span(s, stampEnd, SpaceChar)
            \* \s+(.+) : the white space gives back what "." needs
            starts == {q \in (stampEnd + 1)..w : q <= Len(s) /\ s[q] # "\n"}
        IN  IF d1 = t \/ starts = {} THEN NoMatch
            ELSE LET q == CHOOSE x \in starts : \A y \in starts : y <= x
                     e == DotSpan(s, q)
                 IN  [matched |-> TRUE,
                      parts |-> [k \in 0..7 |->
                          IF k = 0 THEN SubSeq(s, p, e - 1)
                          ELSE IF k = 1 THEN SubSeq(s, b[1], b[2] - 1)
                          ELSE IF k \in 2..5 THEN SubSeq(s, b[2 * k - 1], b[2 * k] - 1)
                          ELSE IF k = 6 THEN SubSeq(s, b[11], stampEnd - 1)
                          ELSE SubSeq(s, q, e - 1)]]

RECURSIVE FindFrom(_, _)
FindFrom(s, p) ==
    IF p > Len(s) THEN NoMatch
    ELSE LET m == MatchAt(s, p)
         IN  IF m.matched THEN m ELSE FindFrom(s, p + 1)

\* lineRegex.FindStringSubmatch(line): the leftmost match, anywhere in the line
FindStringSubmatch(line) == FindFrom(line, 1)

ErrParseLine == "could not parse line"

ErrMalformedPerms == "perms string is malformed"

\* a character outside ASCII: its UTF-8 encoding takes two bytes
EAcute == "U+00E9"

\* the bytes of one character of a Go string
utf8(c) == IF c = EAcute THEN <<"0xC3", "0xA9">> ELSE <<c>>

\* the bytes of a Go string: len(s) and s[k] count and index these
RECURSIVE Bytes(_)
Bytes(s) == IF s = <<>> THEN <<>> ELSE utf8(Head(s)) \o Bytes(Tail(s))

\* string(b) of a byte b: the character whose code point is the byte's value
ByteToString(b) ==
    IF b = "0xC3" THEN "U+00C3" ELSE IF b = "0xA9" THEN "U+00A9" ELSE b

parsePermsToDirectoryFlag(perms) ==
    IF Len(Bytes(perms)) # 10 THEN [isDir |-> FALSE, err |-> ErrMalformedPerms]
    ELSE IF ByteToString(Bytes(perms)[1]) \notin {"d", "-"}
         THEN [isDir |-> FALSE, err |-> ErrMalformedPerms]
    ELSE IF Bytes(perms)[1] = "d" THEN [isDir |-> TRUE, err |-> NoErr]
    ELSE [isDir |-> FALSE, err |-> NoErr]

\* a nil *FileEntry
NilFileEntry == [isNil |-> TRUE, entry |-> ZeroFileEntry]

ScanFailed == [f |-> NilFileEntry, err |-> ErrParseLine]

\* Mutant: the error of the failing sub-parser is returned as it is.
scanDropboxLineToFileEntry_LeakErr(line, clock) ==
    LET m == FindStringSubmatch(line)
        flag == parsePermsToDirectoryFlag(m.parts[1])
        stamp == parseDateStampToTime(m.parts[6], clock)
    IN  IF ~m.matched THEN ScanFailed
        ELSE IF flag.err # NoErr THEN [f |-> NilFileEntry, err |-> flag.err]
        ELSE IF stamp.err # NoErr THEN [f |-> NilFileEntry, err |-> stamp.err]
        ELSE [f |-> [isNil |-> FALSE,
                     entry |-> [filename |-> m.parts[7], created |-> stamp.t,
                                isDirectory |-> flag.isDir]],
              err |-> NoErr]

\* scanDropboxLineToFileEntry(line), reading the package variable now
scanDropboxLineToFileEntry(line, clock) ==
    LET m == FindStringSubmatch(line)
        lineParts == m.parts
        flag == parsePermsToDirectoryFlag(lineParts[1])
        stamp == parseDateStampToTime(lineParts[6], clock)
    IN  IF ~m.matched THEN ScanFailed
        ELSE IF flag.err # NoErr THEN ScanFailed
        ELSE IF stamp.err # NoErr THEN ScanFailed
        ELSE [f |-> [isNil |-> FALSE,
                     entry |-> [filename |-> lineParts[7], created |-> stamp.t,
                                isDirectory |-> flag.isDir]],
              err |-> NoErr]

-----------------------------------------------------------------------------
(* The lines of a listing *)

PermsFile == <<"-", "r", "w", "x", "r", "w", "x", "r", "w", "x">>

PermsDir == <<"d", "r", "w", "x", "r", "-", "x", "r", "-", "x">>

PermsLink == <<"l", "r", "w", "x", "r", "w", "x", "r", "w", "x">>

PermsShort == <<"d", "r", "w", "x">>

PermsLong == PermsDir \o <<"x">>

LinePerms == {PermsFile, PermsDir, PermsLink, PermsShort, PermsLong}

LineNames == {<<"f", ".", "o", "u", "t">>, <<"a", " ", "b">>, <<"9", ":", "1", " ", "x">>}

LineSeps == {<<" ">>, <<" ", " ", " ">>}

\* the date stamps put into lines
LineStamps ==
    {d \in DateInputs :
        \/ d.src.kind = "malformed"
        \/ /\ d.src.mon \in {2, 9}
           /\ d.src.day \in {1, 29, 30}
           /\ d.src.hour \in {0, 14}
           /\ d.src.year \in {0, 2024}}

\* a line: its fields, the integer fields being nints times "0"
LineFields ==
    {[lead |-> <<>>, perms |-> p, nints |-> 4, sep |-> sp, stamp |-> d, name |-> n, tail |-> <<>>] :
        p \in LinePerms, sp \in LineSeps, d \in LineStamps, n \in LineNames}
    \cup
    {[lead |-> l, perms |-> p, nints |-> k, sep |-> <<" ">>, stamp |-> d,
      name |-> <<"f", ".", "o", "u", "t">>, tail |-> t] :
        l \in {<<>>, <<"+", "x", " ">>}, p \in {PermsFile, PermsDir}, k \in {3, 4, 5},
        d \in {x \in LineStamps : x.src.mon = 9 /\ x.src.day = 1 /\ x.src.hour = 14 /\ ~x.src.pad},
        t \in {<<>>, <<"\n">>, <<"\n", "x">>}}

RECURSIVE Ints(_, _)
Ints(n, sep) == IF n = 0 THEN <<>> ELSE <<"0">> \o sep \o Ints(n - 1, sep)

RenderLine(f) ==
    f.lead \o f.perms \o f.sep \o Ints(f.nints, f.sep) \o f.stamp.dateString
    \o f.sep \o f.name \o f.tail

LineInputs == {[line |-> RenderLine(f), src |-> f] : f \in LineFields}

\* the readings of the clock used with lines
LineNows == {n \in Nows : n.month \in {1, 9} /\ n.sec = 0}

scanDropboxLineToFileEntry_call ==
    /\ pc = "scanDropboxLineToFileEntry"
    /\ out' = scanDropboxLineToFileEntry(input.line, now)
    /\ pc' = "done"
    /\ UNCHANGED <<fileListings, fileEntries, jobs, activeFiles, i, calls, ret, now, input>>

InitScan ==
    /\ pc = "scanDropboxLineToFileEntry"
    /\ now \in LineNows
    /\ input \in LineInputs
    /\ out = <<>>
    /\ fileListings = NilSlice
    /\ fileEntries = NilSlice
    /\ jobs = NilSlice
    /\ activeFiles = NilSlice
    /\ i = 0
    /\ calls = <<>>
    /\ ret = NoRet

NextScan == scanDropboxLineToFileEntry_call

SpecScan == InitScan /\ [][NextScan]_vars

-----------------------------------------------------------------------------
(* parsePermsToDirectoryFlag on its own *)

MaxPermLen == 11     \* permission strings of up to this many characters

\* the first character of a permission string
PermFirsts == {"d", "-", "l", "b", "r", EAcute}

\* a first character followed by n further characters, w of them outside
\* ASCII, at the front or at the back of the rest
PermString(first, n, w, front) ==
    <<first>> \o [k \in 1..n |->
                    IF (front /\ k <= w) \/ (~front /\ k > n - w) THEN EAcute ELSE "x"]

PermInputs ==
    {<<>>} \cup
    {PermString(first, n, w, front) :
        first \in PermFirsts, n \in 0..(MaxPermLen - 1), w \in 0..2, front \in BOOLEAN}

parsePermsToDirectoryFlag_call ==
    /\ pc = "parsePermsToDirectoryFlag"
    /\ out' = parsePermsToDirectoryFlag(input)
    /\ pc' = "done"
    /\ UNCHANGED <<fileListings, fileEntries, jobs, activeFiles, i, calls, ret, now, input>>

InitPerms ==
    /\ pc = "parsePermsToDirectoryFlag"
    /\ input \in PermInputs
    /\ out = <<>>
    /\ now = ZeroTime
    /\ fileListings = NilSlice
    /\ fileEntries = NilSlice
    /\ jobs = NilSlice
    /\ activeFiles = NilSlice
    /\ i = 0
    /\ calls = <<>>
    /\ ret = NoRet

NextPerms == parsePermsToDirectoryFlag_call

SpecPerms == InitPerms /\ [][NextPerms]_vars

-----------------------------------------------------------------------------
(* fileIsRecent.  A time.Duration is held as whole days and the seconds    *)
(* of the last day (0..86399), to the second; its int64 nanosecond count   *)
(* ends at maxDuration and minDuration, where Sub stops.                   *)

MaxChecks == 3       \* entries classified in one run

secondsPerDay == 86400

\* time.Hour, in seconds
Hour == 3600

\* a number of seconds as a time.Duration
Seconds(n) == [days |-> n \div secondsPerDay, secs |-> n % secondsPerDay]

\* d < e on time.Duration
DurationLess(d, e) == d.days < e.days \/ (d.days = e.days /\ d.secs < e.secs)

\* 1<<63 - 1 nanoseconds: 9223372036 s and a fraction
maxDuration == [days |-> 106751, secs |-> 85636]

\* -1 << 63 nanoseconds: -9223372037 s, rounded down
minDuration == [days |-> -106752, secs |-> 763]

recentDuration == Seconds(30 * Hour * 24)

\* the days from 1 January of the year 1 to 1 January of the year
daysBefore(year) ==
    LET y == year - 1 IN 365 * y + (y \div 4) - (y \div 100) + (y \div 400)

\* the days from 1 January of the year to the first of the month
RECURSIVE daysBeforeMonth(_, _)
daysBeforeMonth(month, year) ==
    IF month = 1 THEN 0 ELSE daysBeforeMonth(month - 1, year) + daysIn(month - 1, year)

\* the day count and the second of the day of a wall clock reading
absDays(t) == daysBefore(t.year) + daysBeforeMonth(t.month, t.year) + t.day - 1

secOfDay(t) == (t.hour * 60 + t.min) * 60 + t.sec

\* t.Sub(u): the duration t-u, or maxDuration/minDuration when it does not fit
Sub(t, u) ==
    LET dd == absDays(t) - absDays(u)
        ds == secOfDay(t) - secOfDay(u)
        d == IF ds < 0 THEN [days |-> dd - 1, secs |-> ds + secondsPerDay]
             ELSE [days |-> dd, secs |-> ds]
    IN  IF DurationLess(maxDuration, d) THEN maxDuration
        ELSE IF DurationLess(d, minDuration) THEN minDuration
        ELSE d

\* Mutant: an entry exactly recentDuration old still counts as recent.
fileIsRecent_Inclusive(f, clock) == ~DurationLess(recentDuration, Sub(clock, f.created))

\* fileIsRecent(f), reading the package variables now and recentDuration
fileIsRecent(f, clock) == DurationLess(Sub(clock, f.created), recentDuration)

\* readings of time.Now() at load, for the recency runs
RecentNows ==
    {[year |-> 2024, month |-> 3, day |-> 1, hour |-> 12, min |-> 0, sec |-> 0],
     [year |-> 2025, month |-> 3, day |-> 2, hour |-> 0, min |-> 0, sec |-> 0]}

CreatedYears == {1, 1700, 2022, 2023, 2024, 2025, 2400}

CreatedDays == {<<1, 1>>, <<1, 31>>, <<2, 1>>, <<2, 23>>, <<3, 1>>, <<3, 2>>, <<12, 31>>}

CreatedClocks == {<<0, 0, 0>>, <<0, 0, 1>>, <<11, 59, 59>>, <<12, 0, 0>>, <<12, 0, 1>>,
                  <<23, 59, 59>>}

\* file entries as TestFileIsRecent builds them
RecentEntries ==
    {[filename |-> <<"f">>,
      created |-> [year |-> y, month |-> d[1], day |-> d[2],
                   hour |-> c[1], min |-> c[2], sec |-> c[3]],
      isDirectory |-> FALSE] :
        y \in CreatedYears, d \in CreatedDays, c \in CreatedClocks}

\* one more entry of the run is classified
fileIsRecent_call ==
    /\ pc = "fileIsRecent"
    /\ i < MaxChecks
    /\ \E f \in RecentEntries :
        /\ input' = f
        /\ out' = fileIsRecent(f, now)
    /\ i' = i + 1
    /\ UNCHANGED <<pc, fileListings, fileEntries, jobs, activeFiles, calls, ret, now>>

InitRecent ==
    /\ pc = "fileIsRecent"
    /\ now \in RecentNows
    /\ input = ZeroFileEntry
    /\ out = FALSE
    /\ i = 0
    /\ fileListings = NilSlice
    /\ fileEntries = NilSlice
    /\ jobs = NilSlice
    /\ activeFiles = NilSlice
    /\ calls = <<>>
    /\ ret = NoRet

NextRecent == fileIsRecent_call

SpecRecent == InitRecent /\ [][NextRecent]_vars

-----------------------------------------------------------------------------
(* Properties of the collectors, checked under Spec *)

\* the provider's first call (the listing or the query) and its per-item calls
FirstCall == calls[1]

ItemCalls == SubSeq(calls, 2, Len(calls))

DropboxDone == pc = "done" /\ calls # <<>> /\ FirstCall.fn = "getFilesList"

ActiveDone == pc = "done" /\ calls # <<>> /\ FirstCall.fn = "queryJobsList"

Succeeded(cs) == SelectSeq(cs, LAMBDA c : c.res.err = NoErr)

Failed(cs) == SelectSeq(cs, LAMBDA c : c.res.err # NoErr)

RECURSIVE FlattenFiles(_)
FlattenFiles(cs) ==
    IF cs = <<>> THEN <<>> ELSE Head(cs).res.files.items \o FlattenFiles(Tail(cs))

\* C1: GetDropboxFiles never returns an empty result silently: a non-empty
\* listing whose blobs all fail to convert gives nil entries and a non-nil
\* error; an empty collection with a nil error means the listing was empty.
C1_NeverSilentlyEmpty ==
    (DropboxDone /\ FirstCall.res.err = NoErr) =>
        /\ (Len(FirstCall.res.listing.items) > 0 /\ Succeeded(ItemCalls) = <<>>)
           => (ret.coll = NilSlice /\ ret.err # NoErr)
        /\ (ret.err = NoErr /\ ret.coll.items = <<>>)
           => Len(FirstCall.res.listing.items) = 0

C1_Witness ==
    /\ DropboxDone
    /\ Len(FirstCall.res.listing.items) = 3
    /\ Len(Failed(ItemCalls)) = 3
    /\ ret.err = ErrNoFileEntries

\* C2: when the listing succeeds and at least one blob converts,
\* GetDropboxFiles returns a nil error and exactly the entries the provider
\* returned for the converted blobs, in listing order; every blob was
\* attempted once, in order, whatever failed before it.
C2_ExactlyConvertedEntries ==
    (DropboxDone /\ FirstCall.res.err = NoErr /\ Succeeded(ItemCalls) # <<>>) =>
        /\ ret.err = NoErr
        /\ ~ret.coll.isNil
        /\ ret.coll.items = [k \in 1..Len(Succeeded(ItemCalls)) |->
                                 Succeeded(ItemCalls)[k].res.entry]
        /\ [k \in 1..Len(ItemCalls) |-> ItemCalls[k].arg] = FirstCall.res.listing.items

C2_Witness ==
    /\ DropboxDone
    /\ Len(ItemCalls) = 3
    /\ ItemCalls[1].res.err # NoErr
    /\ ItemCalls[2].res.err = NoErr
    /\ ItemCalls[3].res.err # NoErr
    /\ ret.coll.items = <<ItemCalls[2].res.entry>>

\* C3: if getFilesList fails, GetDropboxFiles returns nil entries with that
\* same error and converts no blob.
C3_ListingErrorPropagates ==
    (DropboxDone /\ FirstCall.res.err # NoErr) =>
        /\ ret = [coll |-> NilSlice, err |-> FirstCall.res.err]
        /\ ItemCalls = <<>>

C3_Witness ==
    /\ DropboxDone
    /\ FirstCall.res.err = "connection refused"
    /\ ret.err = "connection refused"

\* C4: whenever queryJobsList succeeds, GetActiveFiles returns a nil error and
\* the concatenation, in job order and without deduplication, of the file
\* lists of the jobs whose extraction succeeded; the collection is non-nil
\* even when every job fails.
C4_ConcatenatesSucceededJobs ==
    (ActiveDone /\ FirstCall.res.err = NoErr) =>
        /\ ret.err = NoErr
        /\ ~ret.coll.isNil
        /\ ret.coll.items = FlattenFiles(Succeeded(ItemCalls))
        /\ [k \in 1..Len(ItemCalls) |-> ItemCalls[k].arg]
             = [k \in 1..Len(FirstCall.res.jobs.items) |->
                    ReaderJob(FirstCall.res.jobs.items[k])]

C4_Witness ==
    /\ ActiveDone
    /\ Len(ItemCalls) = 3
    /\ ItemCalls[1].res.err # NoErr
    /\ ItemCalls[2].res.files.items = <<FileA>>
    /\ ItemCalls[3].res.files.items = <<FileA, FileB>>
    /\ ret.coll.items = <<FileA, FileA, FileB>>

\* C5: if queryJobsList fails, GetActiveFiles returns that same error with no
\* file identifier and extracts from no job; both collectors return either a
\* (non-nil) collection with a nil error or no item with a non-nil error.
C5_ErrorOrCollection ==
    /\ (ActiveDone /\ FirstCall.res.err # NoErr) =>
           /\ ret.err = FirstCall.res.err
           /\ ret.coll.items = <<>>
           /\ ItemCalls = <<>>
    /\ (DropboxDone \/ ActiveDone) =>
           \/ (ret.err = NoErr /\ ~ret.coll.isNil)
           \/ (ret.err # NoErr /\ ret.coll.items = <<>>)

C5_Witness ==
    /\ ActiveDone
    /\ FirstCall.res.err = "schedd unreachable"
    /\ ret.err = "schedd unreachable"

\* C6: every item a collector skipped is exposed to the caller by a
\* diagnostic.  The caller receives the returned collection and error and
\* nothing else, so a skipped item's error has to be carried by the returned
\* error.
C6_SkipsExposed ==
    (DropboxDone \/ ActiveDone) =>
        \A k \in 1..Len(Failed(ItemCalls)) :
            ret.err # NoErr /\ Failed(ItemCalls)[k].res.err = ret.err

-----------------------------------------------------------------------------
(* Properties of the extractor, checked under SpecCondor *)

CondorDone == pc = "done"

CommaPositions(v) == {p \in 1..Len(v) : v[p] = ","}

\* the k-th smallest element of a set of numbers
NthSmallest(P, k) == CHOOSE p \in P : Cardinality({q \in P : q < p}) = k - 1

\* the k-th segment of v: what lies between its (k-1)-th and its k-th comma
Segment(v, k) ==
    LET P == CommaPositions(v)
        first == IF k = 1 THEN 1 ELSE NthSmallest(P, k - 1) + 1
        last == IF k = Cardinality(P) + 1 THEN Len(v) ELSE NthSmallest(P, k) - 1
    IN  SubSeq(v, first, last)

\* t is s without its leading and trailing white space
IsTrimOf(t, s) ==
    /\ t # <<>> => (t[1] \notin WhiteSpace /\ t[Len(t)] \notin WhiteSpace)
    /\ \E a \in 0..Len(s) :
          /\ a + Len(t) <= Len(s)
          /\ SubSeq(s, a + 1, a + Len(t)) = t
          /\ \A k \in 1..a : s[k] \in WhiteSpace
          /\ \A k \in (a + Len(t) + 1)..Len(s) : s[k] \in WhiteSpace

\* files is v split on commas, one trimmed identifier per segment
IsSplitTrimmed(files, v) ==
    /\ ~files.isNil
    /\ Len(files.items) = Cardinality(CommaPositions(v)) + 1
    /\ \A k \in 1..Len(files.items) : IsTrimOf(files.items[k], Segment(v, k))

\* C10, as claimed: without the attribute the extractor fails with
\* ErrMissingJobDropboxFiles and returns no files; otherwise it returns the
\* value split on commas, one trimmed identifier per segment, empty segments
\* kept.
C10_Original ==
    CondorDone =>
        IF AttrFiles \notin DOMAIN input
        THEN out = [files |-> NilSlice, err |-> ErrMissingJobDropboxFiles]
        ELSE out.err = NoErr /\ IsSplitTrimmed(out.files, input[AttrFiles].data)

\* C10, amended: as claimed when the attribute's value is read without
\* error; when reading it fails, the extractor returns no files and the read
\* error.
C10_SplitsTrimsOrFails ==
    CondorDone =>
        IF AttrFiles \notin DOMAIN input
        THEN out = [files |-> NilSlice, err |-> ErrMissingJobDropboxFiles]
        ELSE IF input[AttrFiles].readErr # NoErr
        THEN out = [files |-> NilSlice, err |-> input[AttrFiles].readErr]
        ELSE out.err = NoErr /\ IsSplitTrimmed(out.files, input[AttrFiles].data)

C10_Witness ==
    /\ CondorDone
    /\ AttrFiles \in DOMAIN input
    /\ input[AttrFiles] = [data |-> <<" ", ",", ",", "a">>, readErr |-> NoErr]
    /\ out.files.items = <<<<>>, <<>>, <<"a">>>>

-----------------------------------------------------------------------------
(* Properties of the date resolver, checked under SpecDate *)

DateDone == pc = "done"

\* a month and a day that exist in some year, with a time of day
IsCalendarStamp(f) ==
    /\ f.mon \in 1..12
    /\ f.day >= 1
    /\ f.day <= (IF f.mon = 2 THEN 29 ELSE daysIn(f.mon, 1))
    /\ f.hour \in 0..23
    /\ f.min \in 0..59

\* the stamp's month, day and time of day in the given year
Placed(f, year) ==
    [year |-> year, month |-> f.mon, day |-> f.day, hour |-> f.hour, min |-> f.min, sec |-> 0]

\* the year the claim resolves a year-less stamp to: the year of the clock,
\* or the year before when the stamp placed in the clock's year is after it
ResolvedYear(f, clock) ==
    IF After(Placed(f, clock.year), clock) THEN clock.year - 1 ELSE clock.year

\* the stamp's day exists in that year (29 February only in a leap year)
ExistsIn(f, year) == f.day <= daysIn(f.mon, year)

\* C7: a year-less stamp resolves to its month, day and time in the year of
\* now, or in the year before exactly when that instant is strictly after
\* now; the resolved instant is never after now.  Nothing is asked of the
\* month and day where the claimed day does not exist in the claimed year.
C7_YearlessResolvedAgainstNow ==
    (DateDone /\ input.src.kind = "noyear" /\ IsCalendarStamp(input.src)) =>
        /\ out.err = NoErr
        /\ ~After(out.t, now)
        /\ ExistsIn(input.src, ResolvedYear(input.src, now))
           => out.t = Placed(input.src, ResolvedYear(input.src, now))

-----------------------------------------------------------------------------
(* Properties of the line parser, checked under SpecScan *)

ScanDone == pc = "done"

\* a date stamp of one of the two documented forms that names a day that exists
IsValidStamp(f) ==
    \/ f.kind = "noyear" /\ IsCalendarStamp(f)
    \/ f.kind = "year" /\ f.mon \in 1..12 /\ f.day \in 1..daysIn(f.mon, f.year)

\* a line of the documented shape:
\* <10-char perm><ws><int><ws><int><ws><int><ws><int><ws><timestamp><ws><name>
IsValidLine(f) ==
    /\ f.lead = <<>>
    /\ Len(f.perms) = 10
    /\ f.perms[1] \in {"d", "-"}
    /\ f.nints = 4
    /\ IsValidStamp(f.stamp.src)
    /\ f.tail = <<>>

\* the day a year-less stamp names exists in the year it is to be resolved to
NamesExistingDay(f, clock) ==
    f.kind = "noyear" => ExistsIn(f, ResolvedYear(f, clock))

\* C8: every valid line of the documented shape is parsed, and the entry
\* agrees with the line: isDirectory exactly for a permission field starting
\* with "d", the name field as filename, and the stamp's month and day, with
\* its time of day or its year, in created.  A line is taken as valid only
\* when its stamp names a day that exists in the year it is resolved to.
C8_ValidLineRoundTrips ==
    (ScanDone /\ IsValidLine(input.src) /\ NamesExistingDay(input.src.stamp.src, now)) =>
        /\ out.err = NoErr
        /\ ~out.f.isNil
        /\ out.f.entry.isDirectory = (input.src.perms[1] = "d")
        /\ out.f.entry.filename = input.src.name
        /\ out.f.entry.created.month = input.src.stamp.src.mon
        /\ out.f.entry.created.day = input.src.stamp.src.day
        /\ IF input.src.stamp.src.kind = "noyear"
           THEN /\ out.f.entry.created.hour = input.src.stamp.src.hour
                /\ out.f.entry.created.min = input.src.stamp.src.min
           ELSE out.f.entry.created.year = input.src.stamp.src.year

-----------------------------------------------------------------------------
(* Properties of parseDateStampToTime for stamps that carry their year,    *)
(* and for strings that are no stamp, under SpecDate                       *)

\* neither layout parses the date string
ParsesUnderNeither(dateString) ==
    /\ ParseInLocation(dateWithTimeNoYearLayout, dateString).err # NoErr
    /\ ParseInLocation(dateWithYearLayout, dateString).err # NoErr

\* C11: a stamp of the form "Mon D YYYY" naming a day of the calendar yields
\* local midnight of that year, month and day whatever now is, also when
\* that day is after now; a string neither layout parses yields the zero
\* instant and the error of the time parser itself.
C11_YearFormVerbatimOrParseError ==
    DateDone =>
        /\ (input.src.kind = "year" /\ IsCalendarStamp(input.src)
            /\ ExistsIn(input.src, input.src.year))
           => out = [t |-> Placed(input.src, input.src.year), err |-> NoErr]
        /\ ParsesUnderNeither(input.dateString)
           => /\ out.t = ZeroTime
              /\ out.err \in TimeParseErrors
              /\ out.err = ParseInLocation(dateWithYearLayout, input.dateString).err

\* a stamp with its year, naming a day after now, was resolved
C11_Witness ==
    /\ DateDone
    /\ input.src.kind = "year"
    /\ out.err = NoErr
    /\ After(out.t, now)
    /\ out.t = Placed(input.src, input.src.year)

-----------------------------------------------------------------------------
(* Properties of parsePermsToDirectoryFlag, under SpecPerms *)

PermsDone == pc = "done"

-----------------------------------------------------------------------------
(* Properties of fileIsRecent, under SpecRecent *)

\* an entry of the run has been classified
RecentDone == pc = "fileIsRecent" /\ i > 0

\* the instant 30 days of 24 hours after t, by the calendar
ThirtyDaysAfter(t) == AddDate(t, 0, 0, 30)

\* C13: an entry is recent exactly when now is less than 30 days of 24
\* hours after its created instant, so an entry exactly 30 days old is not
\* recent and an entry dated after now is; no step of a run changes now,
\* and every entry of the run is classified against it.
C13_RecentWithinThirtyDays ==
    /\ [](RecentDone => (out <=> After(ThirtyDaysAfter(input.created), now)))
    /\ [](RecentDone => (After(input.created, now) => out))
    /\ [][now' = now]_vars

\* an entry exactly 30 days old was classified, as not recent
C13_Witness ==
    /\ RecentDone
    /\ ThirtyDaysAfter(input.created) = now
    /\ out = FALSE

=============================================================================
